---- MODULE Spec2Model ----
(***************************************************************************)
(* Snakes and Ladders engine of src/main.py (class SnakesLadders): board   *)
(* generation, move resolution (hazard -> boost -> power-up), the AI's     *)
(* memory and the play_game loop.  One step of Next is one iteration of    *)
(* the `while True` loop of play_game, i.e. one complete top-level call of *)
(* move() with every nested call it makes.                                 *)
(***************************************************************************)
EXTENDS Integers, Sequences, FiniteSets, TLC

VARIABLES
    size,             \* self.size
    difficulty,       \* self.difficulty
    snakes,           \* self.snakes   (dict start -> end, a function)
    ladders,          \* self.ladders  (dict start -> end, a function)
    player_position,  \* self.player_position
    ai_position,      \* self.ai_position
    turn,             \* self.turn
    ai_memory,        \* self.ai_memory: [hits: square -> count, snake_immunity: BOOLEAN]
    pc,               \* "generate_snakes", "generate_ladders": inside __init__;
                      \* "init_error": __init__ raised ValueError;
                      \* "loop" while play_game iterates, "done" after a break;
                      \* "move_error": a move raised ValueError
    log,              \* frames of the calls of move() made by the last iteration
    ctor              \* __init__'s arguments num_snakes, num_ladders and the
                      \* iterations made so far by the two generator loops

vars == <<size, difficulty, snakes, ladders, player_position, ai_position,
          turn, ai_memory, pc, log, ctor>>

\* ------------------------------------------------------------------ bounds

\* Largest depth of nested move() calls (extra rolls) followed in one turn.
MaxDepth == 2

\* Largest hit count kept in ai_memory; a move that would exceed it is not taken.
MaxHits == 2

\* Largest num_snakes + num_ladders passed to __init__ in SpecGen.
MaxGen == 2

\* ------------------------------------------------------------- board set-up

Min(a, b) == IF a <= b THEN a ELSE b

\* random.randint(a, b): the closed range; empty when a > b (ValueError).
randint(a, b) == a..b

\* The dict built by `d[start] = end` over a sequence of (start, end) draws:
\* a later draw with the same start overwrites an earlier one.
DictOf(draws) ==
    LET keys == {draws[i][1] : i \in DOMAIN draws}
        last(k) == CHOOSE i \in DOMAIN draws :
                      /\ draws[i][1] = k
                      /\ \A j \in DOMAIN draws : draws[j][1] = k => j <= i
    IN [k \in keys |-> draws[last(k)][2]]

\* Line 24: the starts generate_snakes can draw.
SnakeStartRange(sz) == randint(10, sz - 10)

\* Line 25 with the upper end `start - 1`.
SnakeEndRangeLoose(start) == randint(1, start - 1)

\* Line 25: the ends generate_snakes can draw for a start.
SnakeEndRange(start) == randint(1, start - 5)

\* generate_snakes: every draw is start in randint(10, size-10),
\* end in randint(1, start-5).
SnakeDrawsOk(sz, draws) ==
    \A i \in DOMAIN draws :
        /\ draws[i][1] \in SnakeStartRange(sz)
        /\ draws[i][2] \in SnakeEndRange(draws[i][1])

generate_snakes(draws) == DictOf(draws)

\* Line 33: the starts generate_ladders can draw.
LadderStartRange(sz) == randint(1, sz - 10)

\* Line 34 without the min(self.size, ...).
LadderEndRangeUnclipped(sz, start) == randint(start + 5, start + 20)

\* Line 34: the ends generate_ladders can draw for a start.
LadderEndRange(sz, start) == randint(start + 5, Min(sz, start + 20))

\* generate_ladders: start in randint(1, size-10),
\* end in randint(start+5, min(size, start+20)).
LadderDrawsOk(sz, draws) ==
    \A i \in DOMAIN draws :
        /\ draws[i][1] \in LadderStartRange(sz)
        /\ draws[i][2] \in LadderEndRange(sz, draws[i][1])

generate_ladders(draws) == DictOf(draws)

\* self.power_ups, fixed for every board size.
power_ups == [q \in {10, 30, 55} |->
                 IF q = 10 THEN "teleport"
                 ELSE IF q = 30 THEN "extra_roll" ELSE "snake_immunity"]

\* Constructor arguments and the random draws of the two generators that the
\* model explores: size, difficulty, and the (start, end) pairs drawn.
Configs ==
    { [size |-> 20, difficulty |-> "normal",
       snake_draws  |-> << >>,
       ladder_draws |-> << <<5, 20>> >>],
      [size |-> 20, difficulty |-> "normal",
       snake_draws  |-> << <<10, 5>>, <<10, 3>> >>,
       ladder_draws |-> << <<3, 12>>, <<4, 10>>, <<2, 7>>, <<7, 15>> >>],
      [size |-> 32, difficulty |-> "hard",
       snake_draws  |-> << <<21, 12>>, <<12, 3>>, <<18, 3>> >>,
       ladder_draws |-> << <<14, 30>> >>],
      [size |-> 66, difficulty |-> "normal",
       snake_draws  |-> << <<56, 51>> >>,
       ladder_draws |-> << <<35, 55>> >>],
      [size |-> 25, difficulty |-> "normal",
       snake_draws  |-> << <<15, 10>> >>,
       ladder_draws |-> << >>],
      [size |-> 20, difficulty |-> "normal",
       snake_draws  |-> << >>,
       ladder_draws |-> << <<10, 16>> >>] }

\* The state __init__ (lines 8-18) leaves for the arguments and draws of cfg.
Constructed(cfg) ==
    /\ SnakeDrawsOk(cfg.size, cfg.snake_draws)
    /\ LadderDrawsOk(cfg.size, cfg.ladder_draws)
    /\ size = cfg.size
    /\ difficulty = cfg.difficulty
    /\ snakes = generate_snakes(cfg.snake_draws)
    /\ ladders = generate_ladders(cfg.ladder_draws)
    /\ ai_memory = [hits |-> [k \in 1..cfg.size |-> 0], snake_immunity |-> FALSE]
    /\ player_position = 1
    /\ ai_position = 1
    /\ turn = "player"
    /\ pc = "loop"
    /\ log = << >>
    /\ ctor = [num_snakes |-> Len(cfg.snake_draws), made_snakes |-> Len(cfg.snake_draws),
               num_ladders |-> Len(cfg.ladder_draws), made_ladders |-> Len(cfg.ladder_draws)]

Init == \E cfg \in Configs : Constructed(cfg)

\* ----------------------------------------------------------------- move()

\* roll_dice: random.randint(1, 6).
roll_dice == randint(1, 6)

\* self.ai_memory.get(square, 0)
MemGet(mem, square) ==
    IF square \in DOMAIN mem.hits THEN mem.hits[square] ELSE 0

\* Line 73 with the threshold `> 0`.
ai_strategy_any_hit(st, dice_roll) ==
    LET predicted_position == st.ai_position + dice_roll
    IN  IF predicted_position \in DOMAIN snakes
           /\ MemGet(st.ai_memory, predicted_position) > 0
        THEN {1, 2, 3} \cup {dice_roll}
        ELSE {dice_roll}

\* ai_strategy(dice_roll): the set of values it can return.
ai_strategy(st, dice_roll) ==
    LET predicted_position == st.ai_position + dice_roll
    IN  IF predicted_position \in DOMAIN snakes
           /\ MemGet(st.ai_memory, predicted_position) > 1
        THEN {1, 2, 3} \cup {dice_roll}
        ELSE {dice_roll}

\* Lines 46-47 looking the risk up under the snake's destination.
AdjustedByDestination(st, player_type, raw) ==
    IF player_type = "ai" /\ difficulty = "hard"
    THEN IF /\ st.ai_position + raw \in DOMAIN snakes
            /\ MemGet(st.ai_memory, snakes[st.ai_position + raw]) > 1
         THEN {1, 2, 3} \cup {raw}
         ELSE {raw}
    ELSE {raw}

\* Lines 46-47: the values dice_roll can hold after them, given the raw roll.
Adjusted(st, player_type, raw) ==
    IF player_type = "ai" /\ difficulty = "hard"
    THEN ai_strategy(st, raw)
    ELSE {raw}

\* Lines 44-47: the dice values move() may end up using.
Rolls(st, player_type) ==
    UNION {Adjusted(st, player_type, raw) : raw \in roll_dice}

\* Line 51 with the comparison off by one.
OvershootOffByOne(new_position) == new_position > size + 1

\* Line 51: `if new_position > self.size`.
Overshoot(new_position) == new_position > size

\* Line 52 clipping to the last square instead of forfeiting the roll.
ForfeitClipped(position) == size

\* Line 52: `return position`.
Forfeit(position) == position

\* Line 55 with the immunity test dropped.
NeverImmune(mem, player_type) == FALSE

\* Line 55: `player_type == "ai" and "snake_immunity" in self.ai_memory`.
Immune(mem, player_type) == player_type = "ai" /\ mem.snake_immunity

\* Line 60 recording the hit against the snake's head.
HitKeySource(source, destination) == source

\* Line 60: the key of the hit recorded when a snake moves the AI from
\* `source` to `destination` (new_position has already been reassigned).
HitKey(source, destination) == destination

\* Line 60: self.ai_memory[k] = self.ai_memory.get(k, 0) + 1.
RecordHit(mem, k) == [mem EXCEPT !.hits[k] = MemGet(mem, k) + 1]

\* Lines 62-63 followed by a second snake look-up.
LadderThenSnake(new_position) ==
    LET up == IF new_position \in DOMAIN ladders
              THEN ladders[new_position] ELSE new_position
    IN  IF up \in DOMAIN snakes THEN snakes[up] ELSE up

\* Lines 62-63: one ladder look-up.
LadderStep(new_position) ==
    IF new_position \in DOMAIN ladders THEN ladders[new_position] ELSE new_position

\* Line 65 testing the square the dice landed on.
PowerSquareAtLanding(candidate, resolved) == candidate

\* Line 65: the square looked up in power_ups is new_position as it stands
\* after the snake and ladder look-ups.
PowerSquare(candidate, resolved) == resolved

\* Line 81: the teleport targets.
TeleportRange(position) == randint(position + 5, Min(size, position + 20))

\* Lines 95-96 without the `player_type == "ai"` test.
GrantImmunityToAnyone(mem, player_type) == [mem EXCEPT !.snake_immunity = TRUE]

\* Lines 95-96 replacing the memory by a fresh dict holding only the flag.
GrantImmunityFresh(mem, player_type) ==
    IF player_type = "ai"
    THEN [hits |-> [k \in DOMAIN mem.hits |-> 0], snake_immunity |-> TRUE]
    ELSE mem

\* Lines 95-96: the immunity grant.
GrantImmunity(mem, player_type) ==
    IF player_type = "ai" THEN [mem EXCEPT !.snake_immunity = TRUE] ELSE mem

\* self.player_position / self.ai_position of the machine state st.
Pos(st, player_type) ==
    IF player_type = "player" THEN st.player_position ELSE st.ai_position

SetPos(st, player_type, p) ==
    IF player_type = "player"
    THEN [st EXCEPT !.player_position = p]
    ELSE [st EXCEPT !.ai_position = p]

\* One call of move() as recorded in `log`.
Frame(player_type, candidate, overshoot, hz, new1, new2, ret, power, target) ==
    [type |-> player_type, candidate |-> candidate, overshoot |-> overshoot,
     hz |-> hz, new1 |-> new1, new2 |-> new2, ret |-> ret,
     power |-> power, target |-> target]

RECURSIVE move(_, _, _, _)
RECURSIVE activate_power_up(_, _, _, _)

\* activate_power_up(position, player_type) from machine state st: the set of
\* [st, frames, target, err] it can end in.  target is the value it assigned
\* to the agent's position (0 when it assigned none); err says that it was
\* left by a ValueError (randint on an empty range), before any assignment.
activate_power_up(st, position, player_type, depth) ==
    LET power == power_ups[position]
    IN  IF power = "teleport"
        THEN IF TeleportRange(position) = {}
             THEN { [st |-> st, frames |-> << >>, target |-> 0, err |-> TRUE] }
             ELSE { [st |-> SetPos(st, player_type, teleport_target),
                     frames |-> << >>, target |-> teleport_target, err |-> FALSE] :
                    teleport_target \in TeleportRange(position) }
        ELSE IF power = "extra_roll"
        THEN IF depth >= MaxDepth THEN {}
             ELSE { IF o.err
                    THEN [st |-> o.st, frames |-> o.frames, target |-> 0, err |-> TRUE]
                    ELSE [st |-> SetPos(o.st, player_type, o.ret),
                          frames |-> o.frames, target |-> o.ret, err |-> FALSE] :
                    o \in move(st, Pos(st, player_type), player_type, depth + 1) }
        ELSE { [st |-> [st EXCEPT !.ai_memory = GrantImmunity(st.ai_memory, player_type)],
                frames |-> << >>, target |-> 0, err |-> FALSE] }

\* move(position, player_type) from machine state st: the set of
\* [ret, st, frames, err] it can end in, over every dice value and every
\* random choice of the calls it makes; with err it did not return.
move(st, position, player_type, depth) ==
    UNION {
      LET new_position == position + dice_roll
      IN  IF Overshoot(new_position)
          THEN { [ret |-> Forfeit(position), st |-> st, err |-> FALSE,
                  frames |-> << Frame(player_type, new_position, TRUE, "none",
                                      new_position, new_position,
                                      Forfeit(position), "none", 0) >>] }
          ELSE
            LET isSnake == new_position \in DOMAIN snakes
                avoided == isSnake /\ Immune(st.ai_memory, player_type)
                bitten  == isSnake /\ ~avoided
                new1    == IF bitten THEN snakes[new_position] ELSE new_position
                mem1    == IF bitten /\ player_type = "ai"
                           THEN RecordHit(st.ai_memory, HitKey(new_position, new1))
                           ELSE st.ai_memory
                st1     == [st EXCEPT !.ai_memory = mem1]
                new2    == LadderStep(new1)
                hz      == IF bitten THEN "hit"
                           ELSE IF avoided THEN "avoided" ELSE "none"
                square  == PowerSquare(new_position, new2)
            IN  IF square \in DOMAIN power_ups
                THEN { [ret |-> new2, st |-> a.st, err |-> a.err,
                        frames |-> << Frame(player_type, new_position, FALSE, hz,
                                            new1, new2, new2, power_ups[square],
                                            a.target) >> \o a.frames] :
                       a \in activate_power_up(st1, square, player_type, depth) }
                ELSE { [ret |-> new2, st |-> st1, err |-> FALSE,
                        frames |-> << Frame(player_type, new_position, FALSE, hz,
                                            new1, new2, new2, "none", 0) >>] }
      : dice_roll \in Rolls(st, player_type) }

\* ------------------------------------------------------------- play_game()

\* Lines 110, 117 with a strict comparison.
WonStrict(position) == position > size

\* Lines 110, 117: `if self.<agent>_position >= self.size`.
Won(position) == position >= size

\* Lines 113, 120 with line 120 assigning "ai" again.
OtherStuck(t) == "ai"

\* Lines 113, 120: the hand-over of the turn.
Other(t) == IF t = "player" THEN "ai" ELSE "player"

Machine == [player_position |-> player_position, ai_position |-> ai_position,
            ai_memory |-> ai_memory]

HitsWithin(mem) == \A k \in DOMAIN mem.hits : mem.hits[k] <= MaxHits

\* Lines 107-113: the player's iteration of the loop.
PlayerTurn ==
    /\ pc = "loop"
    /\ turn = "player"
    /\ \E o \in move(Machine, player_position, "player", 0) :
        /\ HitsWithin(o.st.ai_memory)
        /\ player_position' = IF o.err THEN o.st.player_position ELSE o.ret
        /\ ai_position' = o.st.ai_position
        /\ ai_memory' = o.st.ai_memory
        /\ log' = o.frames
        /\ pc' = IF o.err THEN "move_error"
                 ELSE IF Won(o.ret) THEN "done" ELSE "loop"
        /\ turn' = IF o.err \/ Won(o.ret) THEN turn ELSE Other(turn)
    /\ UNCHANGED <<size, difficulty, snakes, ladders, ctor>>

\* Lines 114-120: the AI's iteration of the loop.
AiTurn ==
    /\ pc = "loop"
    /\ turn # "player"
    /\ \E o \in move(Machine, ai_position, "ai", 0) :
        /\ HitsWithin(o.st.ai_memory)
        /\ ai_position' = IF o.err THEN o.st.ai_position ELSE o.ret
        /\ player_position' = o.st.player_position
        /\ ai_memory' = o.st.ai_memory
        /\ log' = o.frames
        /\ pc' = IF o.err THEN "move_error"
                 ELSE IF Won(o.ret) THEN "done" ELSE "loop"
        /\ turn' = IF o.err \/ Won(o.ret) THEN turn ELSE Other(turn)
    /\ UNCHANGED <<size, difficulty, snakes, ladders, ctor>>

Next == PlayerTurn \/ AiTurn

Spec == Init /\ [][Next]_vars

\* ------------------------------------------------- play_game() to its end

\* A board generate_snakes can return for size 25 and num_snakes = 6: a snake
\* on every square of randint(10, 15), each with an end of randint(1, start-5).
WallConfig ==
    [size |-> 25, difficulty |-> "normal",
     snake_draws |-> << <<10, 5>>, <<11, 5>>, <<12, 5>>, <<13, 5>>, <<14, 5>>, <<15, 5>> >>,
     ladder_draws |-> << >>]

InitWall ==
    \E d \in {"normal", "hard"} : Constructed([WallConfig EXCEPT !.difficulty = d])

\* Line 73 reads a count only through `> 1`, so every count from MaxHits on
\* steers the AI alike; Saturated keeps such a count at MaxHits.
Saturated(mem) ==
    [mem EXCEPT !.hits = [k \in DOMAIN mem.hits |-> Min(mem.hits[k], MaxHits)]]

\* Lines 114-120 over the saturated counts: the AI's iteration of the loop
\* in a game of any length.
AiTurnSat ==
    /\ pc = "loop"
    /\ turn # "player"
    /\ \E o \in move(Machine, ai_position, "ai", 0) :
        /\ ai_position' = IF o.err THEN o.st.ai_position ELSE o.ret
        /\ player_position' = o.st.player_position
        /\ ai_memory' = Saturated(o.st.ai_memory)
        /\ log' = o.frames
        /\ pc' = IF o.err THEN "move_error"
                 ELSE IF Won(o.ret) THEN "done" ELSE "loop"
        /\ turn' = IF o.err \/ Won(o.ret) THEN turn ELSE Other(turn)
    /\ UNCHANGED <<size, difficulty, snakes, ladders, ctor>>

\* The turn just taken started with roll_dice() returning raw (lines 44-47).
Rolled(position, player_type, raw) ==
    /\ log' # << >>
    /\ log'[1].candidate - position \in Adjusted(Machine, player_type, raw)

PlayerRolls(raw) == PlayerTurn /\ Rolled(player_position, "player", raw)

AiRolls(raw) == AiTurnSat /\ Rolled(ai_position, "ai", raw)

\* Fair dice: a value that roll_dice can return again and again for an agent
\* is returned to it again and again.
FairDice ==
    \A raw \in roll_dice :
        /\ SF_vars(PlayerRolls(raw))
        /\ SF_vars(AiRolls(raw))

NextFair == PlayerTurn \/ AiTurnSat

\* play_game on the wall board under fair dice.
SpecFair == InitWall /\ [][NextFair]_vars /\ WF_vars(NextFair) /\ FairDice

\* ---------------------------------------------------------------- __init__

\* d[k] = v on a dict.
Put(d, k, v) == [x \in DOMAIN d \cup {k} |-> IF x = k THEN v ELSE d[x]]

EmptyDict == [k \in {} |-> 0]

\* SnakesLadders(size, "normal", num_snakes, num_ladders) at line 10.  The
\* fields that lines 13-18 set to fixed values hold them from the start.
Entered(sz, num_snakes, num_ladders) ==
    /\ size = sz
    /\ difficulty = "normal"
    /\ snakes = EmptyDict
    /\ ladders = EmptyDict
    /\ ai_memory = [hits |-> [k \in 1..sz |-> 0], snake_immunity |-> FALSE]
    /\ player_position = 1
    /\ ai_position = 1
    /\ turn = "player"
    /\ pc = "generate_snakes"
    /\ log = << >>
    /\ ctor = [num_snakes |-> num_snakes, made_snakes |-> 0,
               num_ladders |-> num_ladders, made_ladders |-> 0]

game == <<size, difficulty, player_position, ai_position, turn, ai_memory, log>>

\* Lines 23-26: one iteration of the loop of generate_snakes.
GenSnake ==
    /\ pc = "generate_snakes"
    /\ ctor.made_snakes < ctor.num_snakes
    /\ \E start \in SnakeStartRange(size) : \E end \in SnakeEndRange(start) :
            snakes' = Put(snakes, start, end)
    /\ ctor' = [ctor EXCEPT !.made_snakes = @ + 1]
    /\ UNCHANGED <<game, ladders, pc>>

\* Line 24: randint on an empty range raises ValueError out of __init__.
GenSnakeError ==
    /\ pc = "generate_snakes"
    /\ ctor.made_snakes < ctor.num_snakes
    /\ SnakeStartRange(size) = {}
    /\ pc' = "init_error"
    /\ UNCHANGED <<game, snakes, ladders, ctor>>

\* Lines 27, 12: generate_snakes returns, generate_ladders is entered.
GenSnakesDone ==
    /\ pc = "generate_snakes"
    /\ ctor.made_snakes = ctor.num_snakes
    /\ pc' = "generate_ladders"
    /\ UNCHANGED <<game, snakes, ladders, ctor>>

\* Lines 32-35: one iteration of the loop of generate_ladders.
GenLadder ==
    /\ pc = "generate_ladders"
    /\ ctor.made_ladders < ctor.num_ladders
    /\ \E start \in LadderStartRange(size) : \E end \in LadderEndRange(size, start) :
            ladders' = Put(ladders, start, end)
    /\ ctor' = [ctor EXCEPT !.made_ladders = @ + 1]
    /\ UNCHANGED <<game, snakes, pc>>

\* Line 33: randint on an empty range raises ValueError out of __init__.
GenLadderError ==
    /\ pc = "generate_ladders"
    /\ ctor.made_ladders < ctor.num_ladders
    /\ LadderStartRange(size) = {}
    /\ pc' = "init_error"
    /\ UNCHANGED <<game, snakes, ladders, ctor>>

\* Lines 36, 13-18: generate_ladders returns and __init__ completes.
GenLaddersDone ==
    /\ pc = "generate_ladders"
    /\ ctor.made_ladders = ctor.num_ladders
    /\ pc' = "loop"
    /\ UNCHANGED <<game, snakes, ladders, ctor>>

Construct ==
    \/ GenSnake
    \/ GenSnakeError
    \/ GenSnakesDone
    \/ GenLadder
    \/ GenLadderError
    \/ GenLaddersDone

\* The board sizes SpecGen constructs.
GenSizes == {10, 12, 19, 20, 21}

\* __init__ alone, for every size of GenSizes and every pair of counts with
\* num_snakes + num_ladders <= MaxGen, over every draw of the generators.
InitGen ==
    \E sz \in GenSizes : \E n \in 0..MaxGen : \E m \in 0..(MaxGen - n) :
        Entered(sz, n, m)

SpecGen == InitGen /\ [][Construct]_vars

\* The constructor calls followed by play_game in SpecPlay: <<size,
\* num_snakes, num_ladders>>.
PlayArgs == { <<10, 0, 1>>, <<12, 0, 0>>, <<12, 0, 1>>, <<14, 0, 1>>,
              <<19, 1, 0>>, <<20, 1, 0>> }

InitPlay == \E a \in PlayArgs : Entered(a[1], a[2], a[3])

\* __init__ and then play_game, as the menu runs them.
SpecPlay == InitPlay /\ [][Construct \/ Next]_vars


\* ------------------------------------------------------------ the claims

\* The agent that made the last turn, and its position now.
LastMover == log[1].type

PosNow(player_type) ==
    IF player_type = "player" THEN player_position ELSE ai_position

\* C1: after any sequence of turns both agents' positions lie in [1, size],
\* and so does every square a move passed through or assigned on the way
\* (hazard destination, boost destination, teleport target, extra-roll result).
C1_PositionsInRange ==
    /\ player_position \in 1..size
    /\ ai_position \in 1..size
    /\ \A i \in DOMAIN log :
        /\ log[i].ret \in 1..size
        /\ ~log[i].overshoot => /\ log[i].candidate \in 1..size
                                /\ log[i].new1 \in 1..size
                                /\ log[i].new2 \in 1..size
        /\ log[i].power \in {"teleport", "extra_roll"} => log[i].target \in 1..size

\* A turn in which a teleport drew the last square of the board.
C1_Witness ==
    /\ log # << >>
    /\ log[1].power = "teleport"
    /\ log[1].target = size
    /\ PosNow(LastMover) \in 1..size

\* C2: when the resolved square of a turn is a teleport square q, the agent's
\* position once the turn is complete is the teleport target, a value in
\* [q+5, min(size, q+20)], and not q.
C2_TeleportIsOfficial ==
    (log # << >> /\ log[1].power = "teleport") =>
        LET q == log[1].new2
        IN  /\ PosNow(LastMover) = log[1].target
            /\ PosNow(LastMover) \in (q + 5)..Min(size, q + 20)
            /\ PosNow(LastMover) # q

\* C3: when the resolved square of a turn is an extra_roll square, one further
\* move is resolved for the same agent and the agent's position once the turn
\* is complete is the result of that move.
C3_ExtraRollIsOfficial ==
    (log # << >> /\ log[1].power = "extra_roll") =>
        /\ Len(log) >= 2
        /\ log[2].type = log[1].type
        /\ log[1].target = log[2].ret
        /\ PosNow(LastMover) = log[2].ret

\* C4: a move whose candidate position + roll exceeds size returns the
\* position it was called with and applies no hazard, boost or power-up; a
\* turn forfeited that way changes neither position nor the AI memory.
C4_OvershootForfeits ==
    [][ /\ \A i \in DOMAIN log' :
            log'[i].candidate > size =>
                /\ log'[i].overshoot
                /\ log'[i].ret = (IF log'[i].type = "player"
                                  THEN player_position ELSE ai_position)
                /\ log'[i].hz = "none"
                /\ log'[i].power = "none"
                /\ i = Len(log')
        /\ (log' # << >> /\ log'[1].candidate > size) =>
                /\ player_position' = player_position
                /\ ai_position' = ai_position
                /\ ai_memory' = ai_memory
      ]_vars

\* A turn forfeited by overshoot, after which the game goes on.
C4_Witness ==
    /\ log # << >>
    /\ log[1].overshoot
    /\ log[1].candidate > size
    /\ pc = "loop"

\* The number of moves of log that recorded a hit against square k.
HitsRecorded(frames, k) ==
    Cardinality({i \in DOMAIN frames :
                    /\ frames[i].type = "ai"
                    /\ frames[i].hz = "hit"
                    /\ frames[i].new1 = k})

\* C5: an agent without immunity that lands on a hazard source s <= size is
\* moved to snakes[s]; each such move of the AI adds exactly 1 to the hit
\* count of snakes[s] and to no other, and a move of the player adds none.
C5_HazardRedirectsAndRecords ==
    [][ /\ \A i \in DOMAIN log' :
            ( /\ log'[i].candidate <= size
              /\ log'[i].candidate \in DOMAIN snakes
              /\ ~(log'[i].type = "ai" /\ ai_memory.snake_immunity) )
            => /\ log'[i].hz = "hit"
               /\ log'[i].new1 = snakes[log'[i].candidate]
        /\ \A i \in DOMAIN log' :
            log'[i].hz = "hit" => log'[i].candidate \in DOMAIN snakes
        /\ IF \E i \in DOMAIN log' : log'[i].type = "ai" /\ log'[i].hz = "hit"
           THEN \A k \in 1..size :
                    ai_memory'.hits[k] = ai_memory.hits[k] + HitsRecorded(log', k)
           ELSE ai_memory'.hits = ai_memory.hits
      ]_vars

\* The AI has just been moved by a hazard and the hit is in its memory.
C5_Witness ==
    /\ log # << >>
    /\ log[1].type = "ai"
    /\ log[1].hz = "hit"
    /\ log[1].candidate \in DOMAIN snakes
    /\ log[1].new1 = snakes[log[1].candidate]
    /\ ai_memory.hits[log[1].new1] >= 1
    /\ ai_memory.hits[log[1].candidate] = 0

\* C6: once the AI holds snake immunity it keeps it, and every later move of
\* the AI whose candidate is a hazard source stays on the candidate (before
\* the boost look-up) and records no hit.
C6_ImmuneAiIgnoresHazards ==
    [][ ai_memory.snake_immunity =>
          /\ ai_memory'.snake_immunity
          /\ ai_memory'.hits = ai_memory.hits
          /\ \A i \in DOMAIN log' :
                ( /\ log'[i].type = "ai"
                  /\ ~log'[i].overshoot
                  /\ log'[i].candidate \in DOMAIN snakes )
                => /\ log'[i].hz = "avoided"
                   /\ log'[i].new1 = log'[i].candidate
      ]_vars

\* The immune AI has just landed on a hazard source and stayed there.
C6_Witness ==
    /\ log # << >>
    /\ log[1].type = "ai"
    /\ log[1].candidate \in DOMAIN snakes
    /\ log[1].hz = "avoided"
    /\ ai_memory.snake_immunity
    /\ ai_position = log[1].candidate

\* C7: a turn of the player leaves the AI memory as it was (no immunity
\* flag, no hit count), whatever squares its moves land on, and every hazard
\* source the player lands on moves it, whether or not the AI is immune.
C7_PlayerTurnKeepsAiMemory ==
    [][ (pc = "loop" /\ turn = "player") =>
          /\ ai_memory' = ai_memory
          /\ \A i \in DOMAIN log' :
                /\ log'[i].type = "player"
                /\ (~log'[i].overshoot /\ log'[i].candidate \in DOMAIN snakes)
                   => /\ log'[i].hz = "hit"
                      /\ log'[i].new1 = snakes[log'[i].candidate]
      ]_vars

\* The player stands on the snake_immunity square, nobody is immune.
C7_WitnessImmunitySquare ==
    /\ log # << >>
    /\ log[1].type = "player"
    /\ log[1].power = "snake_immunity"
    /\ player_position = 55
    /\ ~ai_memory.snake_immunity

\* The player has just been moved by a hazard while the AI holds immunity.
C7_Witness ==
    /\ log # << >>
    /\ log[1].type = "player"
    /\ log[1].hz = "hit"
    /\ player_position = snakes[log[1].candidate]
    /\ ai_memory.snake_immunity

\* C8: a move applies at most one hazard step and then at most one boost
\* step: the square after the hazard look-up goes through one boost look-up,
\* and whatever that yields is the resolved square, even when it is itself a
\* hazard or boost source.
C8_OneHazardThenOneBoost ==
    [][ \A i \in DOMAIN log' :
          ~log'[i].overshoot =>
            /\ log'[i].new1 =
                 (IF /\ log'[i].candidate \in DOMAIN snakes
                     /\ ~(log'[i].type = "ai" /\ ai_memory.snake_immunity)
                  THEN snakes[log'[i].candidate] ELSE log'[i].candidate)
            /\ log'[i].new2 =
                 (IF log'[i].new1 \in DOMAIN ladders
                  THEN ladders[log'[i].new1] ELSE log'[i].new1)
            /\ log'[i].ret = log'[i].new2
            /\ i = 1 => log'[i].ret = (IF log'[i].type = "player"
                                        THEN player_position' ELSE ai_position')
      ]_vars

\* A hazard dropped the agent on a boost source and the boost was applied.
C8_Witness ==
    /\ log # << >>
    /\ log[1].hz = "hit"
    /\ log[1].new1 \in DOMAIN ladders
    /\ log[1].new2 = ladders[log[1].new1]
    /\ PosNow(LastMover) = log[1].new2

\* A boost dropped the agent on a hazard source and the agent stayed there.
C8_WitnessBoostOntoHazard ==
    /\ log # << >>
    /\ log[1].new1 \in DOMAIN ladders
    /\ log[1].new2 \in DOMAIN snakes
    /\ PosNow(LastMover) = log[1].new2

\* C9: the first turn is the player's, each turn is made by the agent whose
\* turn it is, and every turn that does not end the game hands the turn to
\* the other agent (forfeited and extra-roll turns included).
C9_TurnsAlternate ==
    /\ turn = "player"
    /\ [][ /\ log'[1].type = turn
           /\ pc' = "loop" => turn' = (IF turn = "player" THEN "ai" ELSE "player")
         ]_vars

\* An extra-roll turn whose bonus move overshot, after which the turn passed.
C9_Witness ==
    /\ Len(log) >= 2
    /\ log[1].power = "extra_roll"
    /\ log[2].overshoot
    /\ pc = "loop"
    /\ turn # log[1].type

\* Lines 110-112 and 117-119: the loop was left from the player's (AI's) branch.
PlayerWon == pc = "done" /\ turn = "player"

AiWon == pc = "done" /\ turn = "ai"

\* C10: the game is over exactly when the agent that moved last stands on a
\* square >= size, that agent being the winner; while the game runs both
\* positions are < size; and nothing changes once the game is over.
C10_TerminalStates ==
    /\ [](/\ pc = "loop" => (player_position < size /\ ai_position < size)
          /\ PlayerWon => (log[1].type = "player" /\ player_position >= size)
          /\ AiWon => (log[1].type = "ai" /\ ai_position >= size))
    /\ [][pc = "done" => UNCHANGED vars]_vars

\* The AI has won.
C10_Witness ==
    /\ AiWon
    /\ ai_position = size
    /\ player_position < size

\* The squares some hazard leads to.
SnakeEnds == {snakes[s] : s \in DOMAIN snakes}

\* C11: the dice value a move uses is in [1,6]; it differs from the raw roll
\* only for the AI on hard difficulty when ai_position + raw is a hazard
\* source whose own hit count is > 1, and is then in {1,2,3}; the player's
\* roll and the normal-difficulty AI's roll are the raw roll.
C11_RollAdjustedOnlyOnKnownRisk ==
    \A player_type \in {"player", "ai"} : \A raw \in roll_dice :
        \A used \in Adjusted(Machine, player_type, raw) :
            /\ used \in 1..6
            /\ used # raw =>
                /\ player_type = "ai"
                /\ difficulty = "hard"
                /\ ai_position + raw \in DOMAIN snakes
                /\ ai_memory.hits[ai_position + raw] > 1
                /\ used \in {1, 2, 3}
            /\ (player_type = "player" \/ difficulty = "normal") => used = raw

\* It is the hard AI's turn and one of its raw rolls can be replaced.
C11_Witness ==
    /\ pc = "loop"
    /\ turn = "ai"
    /\ difficulty = "hard"
    /\ \E raw \in roll_dice : \E used \in Adjusted(Machine, "ai", raw) :
            used # raw /\ ai_memory.hits[ai_position + raw] = 2

C17_MemoryNeverShrinks ==
    /\ (\A k \in DOMAIN ai_memory.hits : ai_memory.hits[k] = 0)
    /\ ~ai_memory.snake_immunity
    /\ [][ /\ \A k \in DOMAIN ai_memory.hits :
                ai_memory'.hits[k] >= ai_memory.hits[k]
           /\ ai_memory.snake_immunity => ai_memory'.snake_immunity
         ]_vars

\* The AI holds immunity and the hits it recorded before are still there.
C17_Witness ==
    /\ ai_memory.snake_immunity
    /\ \E k \in DOMAIN ai_memory.hits : ai_memory.hits[k] = 2

\* C19: a move activates a power-up exactly when the square it resolved to
\* (after the hazard and boost look-ups) is a power-up square, and then that
\* square's power-up only; an extra_roll activation is the only thing that
\* makes a further move, and the immunity flag is set only by an AI move
\* resolved to the snake_immunity square.
C19_PowerUpOfResolvedSquareOnly ==
    [][ /\ \A i \in DOMAIN log' :
            /\ log'[i].overshoot => log'[i].power = "none"
            /\ (~log'[i].overshoot /\ log'[i].new2 \in DOMAIN power_ups)
                   => log'[i].power = power_ups[log'[i].new2]
            /\ (~log'[i].overshoot /\ log'[i].new2 \notin DOMAIN power_ups)
                   => log'[i].power = "none"
            /\ (i < Len(log')) <=> (log'[i].power = "extra_roll")
        /\ (ai_memory'.snake_immunity /\ ~ai_memory.snake_immunity)
           <=> (/\ ~ai_memory.snake_immunity
                /\ \E i \in DOMAIN log' :
                      /\ log'[i].type = "ai"
                      /\ ~log'[i].overshoot
                      /\ log'[i].new2 \in DOMAIN power_ups
                      /\ power_ups[log'[i].new2] = "snake_immunity")
      ]_vars

\* A hazard carried the agent onto a power-up square, which was activated.
C19_Witness ==
    /\ log # << >>
    /\ log[1].hz = "hit"
    /\ log[1].candidate \notin DOMAIN power_ups
    /\ log[1].new2 \in DOMAIN power_ups
    /\ log[1].power = power_ups[log[1].new2]

\* The dice landed on a power-up square that is a hazard source: the hazard
\* moved the agent and nothing was activated.
C19_WitnessHazardOnPowerSquare ==
    /\ log # << >>
    /\ log[1].candidate \in DOMAIN power_ups
    /\ log[1].hz = "hit"
    /\ log[1].power = "none"

\* The dice landed on a power-up square that is a boost source: the boost
\* moved the agent and nothing was activated.
C19_WitnessBoostOnPowerSquare ==
    /\ log # << >>
    /\ log[1].candidate \in DOMAIN power_ups
    /\ log[1].new1 \in DOMAIN ladders
    /\ log[1].power = "none"

\* C20: every square with a positive hit count is the destination of some
\* hazard, and no hit is recorded in a turn the AI enters holding immunity.
C20_HitsOnlyAtHazardEnds ==
    /\ [](\A k \in DOMAIN ai_memory.hits :
              ai_memory.hits[k] > 0 => k \in SnakeEnds)
    /\ [][ai_memory.snake_immunity => ai_memory'.hits = ai_memory.hits]_vars

\* The immune AI has just ignored a hazard whose destination already has a hit.
C20_Witness ==
    /\ log # << >>
    /\ log[1].type = "ai"
    /\ log[1].hz = "avoided"
    /\ ai_memory.hits[snakes[log[1].candidate]] >= 1

\* C13: for size >= 20 every entry start -> end of the generated snakes has
\* 10 <= start <= size-10 and 1 <= end <= start-5, hence end < start, after
\* any number of iterations and overwrites.
C13_SnakesPointDown ==
    size >= 20 =>
        \A start \in DOMAIN snakes :
            /\ 10 <= start /\ start <= size - 10
            /\ 1 <= snakes[start] /\ snakes[start] <= start - 5
            /\ snakes[start] < start

\* Two snakes were drawn on the same start and the game was constructed.
C13_Witness ==
    /\ size >= 20
    /\ pc = "loop"
    /\ ctor.made_snakes = 2
    /\ Cardinality(DOMAIN snakes) = 1

\* C14: for size >= 20 every entry start -> end of the generated ladders has
\* 1 <= start <= size-10 and start+5 <= end <= min(size, start+20), hence
\* end > start and end <= size, after any number of iterations and overwrites.
C14_LaddersPointUp ==
    size >= 20 =>
        \A start \in DOMAIN ladders :
            /\ 1 <= start /\ start <= size - 10
            /\ start + 5 <= ladders[start]
            /\ ladders[start] <= Min(size, start + 20)
            /\ ladders[start] > start
            /\ ladders[start] <= size

\* Two ladders were drawn on the same start, the second ending on the last
\* square, and the game was constructed.
C14_Witness ==
    /\ size >= 20
    /\ pc = "loop"
    /\ ctor.made_ladders = 2
    /\ Cardinality(DOMAIN ladders) = 1
    /\ \E start \in DOMAIN ladders : ladders[start] = size

\* C15: __init__ with size < 20 raises and yields no game, whatever
\* num_snakes and num_ladders are; with size >= 20 it never raises.
C15_SmallSizesRejected ==
    /\ size < 20 => pc # "loop"
    /\ size >= 20 => pc # "init_error"

\* C16: in a game that __init__ constructed, no move raises: every random
\* choice of a move, the teleport target included, has a non-empty range.
C16_NoMoveRaises == pc # "move_error"

\* C18: on every board generation can produce, under fair dice, the game
\* eventually reaches PlayerWon or AiWon.
C18_GameEnds == <>(PlayerWon \/ AiWon)

\* On the wall board no agent ever stands on square 10 or above: from a
\* square below 10 every candidate of 10..15 is a snake down to 5.
C18_WallHolds == player_position < 10 /\ ai_position < 10

====
